---- MODULE Spec2Model ----
(***************************************************************************)
(* Model of the X-Skynet Python SDK (packages/sdk-py/xskynet).             *)
(*                                                                         *)
(*   models.py : Agent, ProposalStep, Proposal, Mission and their          *)
(*               from_dict / to_dict conversions (pure functions).         *)
(*   client.py : XSkynetClient, the _request helper and the public         *)
(*               operations, running over a requests.Session whose         *)
(*               HTTPAdapter carries a urllib3 Retry policy.               *)
(*                                                                         *)
(* Four specifications are defined:                                        *)
(*   SpecModels    : Init draws an input mapping, the actions apply one of *)
(*                   the from_dict / to_dict functions to it.              *)
(*   Spec          : a client is constructed, public operations are called *)
(*                   and the server answers each request.                  *)
(*   SpecConstruct : Init draws constructor arguments, the action runs     *)
(*                   XSkynetClient.__init__ on them.                       *)
(*   SpecScope     : a client used as a context manager (with-block), or   *)
(*                   closed explicitly.                                    *)
(***************************************************************************)
EXTENDS Integers, Sequences, FiniteSets, TLC

VARIABLES
    cls,          \* models: the class whose from_dict is applied ("Agent", ...)
    data,         \* models: the input mapping handed to from_dict
    rec,          \* models: the record from_dict produced, or a raised error
    wire,         \* models: the mapping ProposalStep.to_dict produced
    max_retries,  \* client: the max_retries constructor argument
    pc,           \* client: "idle" | "send" | "wait" | "done"
    op,           \* client: the public operation in progress
    method,       \* client: HTTP method of the request being sent
    total,        \* client: Retry.total left for the current request
    nreq,         \* client: requests put on the wire by the operation so far
    hops,         \* client: redirects followed by the operation so far
    resp,         \* client: the last response received
    outcome,      \* client: what the operation handed to its caller
    args,         \* client: the arguments of the operation in progress
    payload,      \* client: the json body of the operation's request
    ctor,         \* client: the arguments the constructor was called with
    client,       \* client: the attributes __init__ stored
    session,      \* client: "open" | "closed", the requests.Session
    scope,        \* client: "none" | "inside" | "left", the with-block
    escaped,      \* client: the exception that left the with-block
    used          \* client: TRUE once an operation of this client has ended

modelVars == <<cls, data, rec, wire>>
lifeVars == <<ctor, client, session, scope, escaped>>
clientVars ==
    <<max_retries, pc, op, method, total, nreq, hops, resp, outcome, args, payload,
      ctor, client, session, scope, escaped, used>>
vars ==
    <<cls, data, rec, wire, max_retries, pc, op, method, total, nreq, hops, resp, outcome,
      args, payload, ctor, client, session, scope, escaped, used>>

-----------------------------------------------------------------------------
(* Bounds of the model.                                                    *)

MaxKeys == 3        \* most keys in an input mapping
MaxSteps == 2       \* most elements in a nested array
MaxRetriesBound == 2 \* largest max_retries a client is constructed with
MaxHops == 1        \* most redirects the server issues in one operation

-----------------------------------------------------------------------------
(* Python values as json.loads produces them.  None is JSON null.          *)

None == [t |-> "null"]
Str(x) == [t |-> "str", s |-> x]
Bool(x) == [t |-> "bool", b |-> x]
List(q) == [t |-> "list", l |-> q]
Dict(f) == [t |-> "dict", d |-> f]

EmptyMap == [k \in {} |-> None]

Ext(f, k, v) == [x \in (DOMAIN f) \cup {k} |-> IF x = k THEN v ELSE f[x]]

\* Python truth value of a value: None, "", False, [] and {} are falsy.
Truthy(v) ==
    CASE v.t = "null" -> FALSE
      [] v.t = "str"  -> v.s # ""
      [] v.t = "bool" -> v.b
      [] v.t = "list" -> Len(v.l) > 0
      [] v.t = "dict" -> DOMAIN v.d # {}

\* Python "a or b".
PyOr(a, b) == IF Truthy(a) THEN a ELSE b

\* dict.get(key, default) and dict.get(key) on the mapping d.
get(d, key, default) == IF key \in DOMAIN d THEN d[key] ELSE default
get1(d, key) == get(d, key, None)

\* An exception raised instead of a value.
Raise(type) == [exc |-> type]
IsRaise(x) == "exc" \in DOMAIN x

\* {k: v for k, v in data.items() if k not in known}
Comprehension(d, known) == [k \in (DOMAIN d) \ known |-> d[k]]

-----------------------------------------------------------------------------
(* models.py                                                               *)

\* Variant: the camelCase spelling is left out of the known keys.
AgentKnown_snake_only == {"id", "name", "status", "role", "model", "last_heartbeat"}

AgentKnown == {"id", "name", "status", "role", "model", "last_heartbeat", "lastHeartbeat"}

Agent_from_dict(v) ==
    IF v.t # "dict" THEN Raise("TypeError")
    ELSE LET d == v.d IN
      IF "id" \notin DOMAIN d THEN Raise("KeyError")
      ELSE [id |-> d["id"],
            name |-> get(d, "name", d["id"]),
            status |-> get(d, "status", Str("unknown")),
            role |-> get(d, "role", Str("")),
            model |-> get(d, "model", Str("")),
            last_heartbeat |-> PyOr(get1(d, "last_heartbeat"), get1(d, "lastHeartbeat")),
            metadata |-> Comprehension(d, AgentKnown)]

\* Variant: to_dict emits every field of the step.
ProposalStep_to_dict_all_fields(self) ==
    [k \in {"title", "assigned_to", "prompt", "status", "result"} |->
        CASE k = "title" -> self.title
          [] k = "assigned_to" -> self.assigned_to
          [] k = "prompt" -> self.prompt
          [] k = "status" -> self.status
          [] k = "result" -> self.result]

ProposalStep_to_dict(self) ==
    [k \in {"title", "assigned_to", "prompt"} |->
        CASE k = "title" -> self.title
          [] k = "assigned_to" -> self.assigned_to
          [] k = "prompt" -> self.prompt]

ProposalStep_from_dict(v) ==
    IF v.t # "dict" THEN Raise("AttributeError")
    ELSE LET d == v.d IN
      [title |-> get(d, "title", Str("")),
       assigned_to |-> get(d, "assigned_to", get(d, "assignedTo", Str(""))),
       prompt |-> get(d, "prompt", Str("")),
       status |-> get(d, "status", Str("pending")),
       result |-> get1(d, "result")]

\* [f(x) for x in raw]: iterating a str yields its characters and iterating
\* a dict yields its keys, all of them str (only that they are str matters
\* to the conversions); None and bool are not iterable.  The first element
\* whose conversion raises ends the comprehension with that error.
Iterated(raw) ==
    CASE raw.t = "list" -> raw.l
      [] raw.t = "str"  -> [i \in 1..Len(raw.s) |-> Str(SubSeq(raw.s, i, i))]
      [] raw.t = "dict" -> [i \in 1..Cardinality(DOMAIN raw.d) |-> Str("key")]
      [] OTHER -> <<>>

\* The comprehension's result: the list, or the first error raised.
FirstRaise(q) ==
    IF \E i \in 1..Len(q) : IsRaise(q[i])
    THEN q[CHOOSE i \in 1..Len(q) : IsRaise(q[i]) /\ \A j \in 1..(i-1) : ~IsRaise(q[j])]
    ELSE [items |-> q]

StepList(raw) ==
    IF raw.t \in {"bool", "null"} THEN Raise("TypeError")
    ELSE FirstRaise([i \in 1..Len(Iterated(raw)) |-> ProposalStep_from_dict(Iterated(raw)[i])])

ProposalKnown ==
    {"id", "title", "description", "proposed_by", "proposedBy",
     "priority", "status", "steps", "created_at", "createdAt",
     "updated_at", "updatedAt"}

\* Variant: raw_steps = data.get("steps", []), so a null steps value is
\* iterated.
Proposal_from_dict_default_only(v) ==
    IF v.t # "dict" THEN Raise("AttributeError")
    ELSE LET d == v.d
             raw_steps == get(d, "steps", List(<<>>))
             steps == StepList(raw_steps)
         IN
      IF IsRaise(steps) THEN steps
      ELSE [id |-> get(d, "id", Str("")),
            title |-> get(d, "title", Str("")),
            description |-> get(d, "description", Str("")),
            proposed_by |-> get(d, "proposed_by", get(d, "proposedBy", Str(""))),
            priority |-> get(d, "priority", Str("medium")),
            status |-> get(d, "status", Str("pending")),
            steps |-> steps.items,
            created_at |-> PyOr(get1(d, "created_at"), get1(d, "createdAt")),
            updated_at |-> PyOr(get1(d, "updated_at"), get1(d, "updatedAt")),
            metadata |-> Comprehension(d, ProposalKnown)]

Proposal_from_dict(v) ==
    IF v.t # "dict" THEN Raise("AttributeError")
    ELSE LET d == v.d
             raw_steps == PyOr(get1(d, "steps"), List(<<>>))
             steps == StepList(raw_steps)
         IN
      IF IsRaise(steps) THEN steps
      ELSE [id |-> get(d, "id", Str("")),
            title |-> get(d, "title", Str("")),
            description |-> get(d, "description", Str("")),
            proposed_by |-> get(d, "proposed_by", get(d, "proposedBy", Str(""))),
            priority |-> get(d, "priority", Str("medium")),
            status |-> get(d, "status", Str("pending")),
            steps |-> steps.items,
            created_at |-> PyOr(get1(d, "created_at"), get1(d, "createdAt")),
            updated_at |-> PyOr(get1(d, "updated_at"), get1(d, "updatedAt")),
            metadata |-> Comprehension(d, ProposalKnown)]

ProposalList(raw) ==
    IF raw.t \in {"bool", "null"} THEN Raise("TypeError")
    ELSE FirstRaise([i \in 1..Len(Iterated(raw)) |-> Proposal_from_dict(Iterated(raw)[i])])

MissionKnown ==
    {"id", "title", "description", "status", "proposals", "created_at", "createdAt"}

Mission_from_dict(v) ==
    IF v.t # "dict" THEN Raise("AttributeError")
    ELSE LET d == v.d
             raw_proposals == PyOr(get1(d, "proposals"), List(<<>>))
             proposals == ProposalList(raw_proposals)
         IN
      IF IsRaise(proposals) THEN proposals
      ELSE [id |-> get(d, "id", Str("")),
            title |-> get(d, "title", Str("")),
            description |-> get(d, "description", Str("")),
            status |-> get(d, "status", Str("active")),
            proposals |-> proposals.items,
            created_at |-> PyOr(get1(d, "created_at"), get1(d, "createdAt")),
            metadata |-> Comprehension(d, MissionKnown)]

-----------------------------------------------------------------------------
(* Input mappings for the conversions.                                     *)

Unset == [unset |-> TRUE]
IsRecord(x) == x # Unset /\ ~IsRaise(x)

Classes == {"Agent", "ProposalStep", "Proposal", "Mission"}

\* Keys that may occur in an input mapping, besides the nested array.
ScalarKeys(c) ==
    CASE c = "Agent" ->
            {"id", "name", "status", "role", "model", "last_heartbeat", "lastHeartbeat",
             "extra", "metadata"}
      [] c = "ProposalStep" ->
            {"title", "assigned_to", "assignedTo", "prompt", "status", "result", "extra"}
      [] c = "Proposal" ->
            {"id", "title", "description", "proposed_by", "proposedBy", "priority",
             "status", "created_at", "createdAt", "updated_at", "updatedAt",
             "extra", "metadata"}
      [] c = "Mission" ->
            {"id", "title", "description", "status", "created_at", "createdAt",
             "extra", "metadata"}

NestedKey(c) ==
    CASE c = "Proposal" -> "steps"
      [] c = "Mission" -> "proposals"
      [] OTHER -> "none"

\* Keys that have a second spelling take four values, an unknown key two,
\* the other keys one.
WideKeys ==
    {"last_heartbeat", "lastHeartbeat", "assigned_to", "assignedTo",
     "proposed_by", "proposedBy", "created_at", "createdAt",
     "updated_at", "updatedAt"}

ScalarValues(k) ==
    IF k \in WideKeys THEN {None, Str(""), Str("a"), Str("b")}
    ELSE IF k = "extra" THEN {None, Str("a")}
    ELSE {Str("a")}

RECURSIVE MapsOver(_)
MapsOver(S) ==
    IF S = {} THEN {EmptyMap}
    ELSE LET k == CHOOSE x \in S : TRUE
         IN {Ext(f, k, v) : f \in MapsOver(S \ {k}), v \in ScalarValues(k)}

ScalarMaps(c, n) ==
    UNION {MapsOver(S) : S \in {T \in SUBSET ScalarKeys(c) : Cardinality(T) <= n}}

RECURSIVE SeqsUpTo(_, _)
SeqsUpTo(S, n) ==
    IF n = 0 THEN {<<>>}
    ELSE SeqsUpTo(S, n - 1) \cup {Append(q, x) : q \in {r \in SeqsUpTo(S, n - 1) : Len(r) = n - 1}, x \in S}

StepPool ==
    {Dict(EmptyMap),
     Dict([k \in {"title", "assigned_to", "prompt"} |-> Str("a")]),
     Dict([k \in {"title", "assignedTo", "status"} |-> Str("b")])}

ProposalPool ==
    {Dict([k \in {"id"} |-> Str("a")]),
     Dict([k \in {"id", "steps"} |->
            IF k = "id" THEN Str("b") ELSE List(<<Dict([j \in {"title"} |-> Str("a")])>>)]),
     Dict([k \in {"steps"} |-> Bool(TRUE)])}

\* Values under the nested key: null, falsy and truthy non-arrays, arrays
\* of mappings, and an array with an element that is not a mapping.
NestedValues(c) ==
    {None, Str(""), Str("a"), Bool(TRUE), List(<<None>>)}
      \cup {List(q) : q \in SeqsUpTo(IF c = "Proposal" THEN StepPool ELSE ProposalPool, MaxSteps)}

Inputs(c) ==
    ScalarMaps(c, MaxKeys)
      \cup (IF NestedKey(c) = "none" THEN {}
            ELSE {Ext(f, NestedKey(c), v) : f \in ScalarMaps(c, MaxKeys - 2), v \in NestedValues(c)})

-----------------------------------------------------------------------------
(* client.py: construction and the context-manager protocol.               *)

_DEFAULT_TIMEOUT == 30

\* Variant: one trailing slash is removed.
rstrip_once(s) ==
    IF Len(s) > 0 /\ SubSeq(s, Len(s), Len(s)) = "/"
    THEN SubSeq(s, 1, Len(s) - 1)
    ELSE s

\* str.rstrip("/")
RECURSIVE rstrip(_)
rstrip(s) ==
    IF Len(s) > 0 /\ SubSeq(s, Len(s), Len(s)) = "/"
    THEN rstrip(SubSeq(s, 1, Len(s) - 1))
    ELSE s

\* The attributes and session headers __init__ sets from its arguments a;
\* the Retry policy it mounts is max_retries with the lists further down.
__init__(a) ==
    [base_url |-> rstrip(a.base_url),
     api_key |-> a.api_key,
     timeout |-> a.timeout,
     headers |-> [h \in {"Authorization", "Content-Type", "Accept", "User-Agent"} |->
                    CASE h = "Authorization" -> "Bearer " \o a.api_key
                      [] h = "Content-Type" -> "application/json"
                      [] h = "Accept" -> "application/json"
                      [] h = "User-Agent" -> "xskynet-sdk-python/0.1.0"]]

\* close(): self._session.close()
close(s) == "closed"

\* __enter__ returns the client itself.
__enter__(c) == c

\* Variant: the session is closed on a clean exit only.
__exit___clean_only(s, exc) ==
    [session |-> IF exc.kind = "none" THEN close(s) ELSE s, suppress |-> FALSE]

\* __exit__(*args): closes and returns None, so the with statement does
\* not suppress the exception exc it was called with.
__exit__(s, exc) ==
    [session |-> close(s), suppress |-> FALSE]

\* Constructor arguments.
Urls ==
    {"https://example.com", "https://example.com/", "https://example.com//",
     "https://example.com/api/", "/", ""}

CtorArgs ==
    [base_url : Urls, api_key : {"k", "secret"}, timeout : {_DEFAULT_TIMEOUT, 5},
     max_retries : 0..MaxRetriesBound]

DefaultArgs(m) ==
    [base_url |-> "https://example.com/", api_key |-> "k", timeout |-> _DEFAULT_TIMEOUT,
     max_retries |-> m]

-----------------------------------------------------------------------------
(* Client state shared by the specifications.                              *)

NoResponse == [status_code |-> 0, text |-> "", retry_after |-> FALSE, location |-> FALSE]
NoOutcome == [kind |-> "none"]
NoArgs == [steps |-> None]

\* A constructed client with max_retries = m, outside any with-block.
Constructed(m) ==
    /\ ctor = DefaultArgs(m)
    /\ client = __init__(ctor)
    /\ max_retries = m
    /\ session = "open"
    /\ scope = "none"
    /\ escaped = NoOutcome
    /\ used = FALSE

ClientIdle ==
    /\ pc = "idle"
    /\ args = NoArgs
    /\ payload = None
    /\ op = "none"
    /\ method = "none"
    /\ total = 0
    /\ nreq = 0
    /\ hops = 0
    /\ resp = NoResponse
    /\ outcome = NoOutcome

-----------------------------------------------------------------------------
(* SpecModels: the conversions of models.py applied to drawn inputs.       *)

InitModels ==
    /\ cls \in Classes
    /\ data \in {Dict(f) : f \in Inputs(cls)}
    /\ rec = Unset
    /\ wire = Unset
    /\ Constructed(0)
    /\ ClientIdle

AgentFromDict ==
    /\ cls = "Agent" /\ rec = Unset
    /\ rec' = Agent_from_dict(data)
    /\ UNCHANGED <<cls, data, wire>>
    /\ UNCHANGED clientVars

ProposalStepFromDict ==
    /\ cls = "ProposalStep" /\ rec = Unset
    /\ rec' = ProposalStep_from_dict(data)
    /\ UNCHANGED <<cls, data, wire>>
    /\ UNCHANGED clientVars

ProposalStepToDict ==
    /\ cls = "ProposalStep" /\ IsRecord(rec) /\ wire = Unset
    /\ wire' = ProposalStep_to_dict(rec)
    /\ UNCHANGED <<cls, data, rec>>
    /\ UNCHANGED clientVars

ProposalFromDict ==
    /\ cls = "Proposal" /\ rec = Unset
    /\ rec' = Proposal_from_dict(data)
    /\ UNCHANGED <<cls, data, wire>>
    /\ UNCHANGED clientVars

MissionFromDict ==
    /\ cls = "Mission" /\ rec = Unset
    /\ rec' = Mission_from_dict(data)
    /\ UNCHANGED <<cls, data, wire>>
    /\ UNCHANGED clientVars

NextModels ==
    \/ AgentFromDict
    \/ ProposalStepFromDict
    \/ ProposalStepToDict
    \/ ProposalFromDict
    \/ MissionFromDict

SpecModels == InitModels /\ [][NextModels]_vars

-----------------------------------------------------------------------------
(* client.py: the transport.                                               *)

\* Retry(total=max_retries, status_forcelist=..., allowed_methods=...) with
\* the defaults of urllib3 for what the constructor call leaves out:
\* raise_on_status=True, respect_retry_after_header=True.
status_forcelist == {429, 500, 502, 503, 504}
allowed_methods == {"GET", "POST", "PUT", "PATCH", "DELETE"}
RETRY_AFTER_STATUS_CODES == {413, 429, 503}

\* requests follows a response as a redirect when it has a Location header
\* and one of these statuses.
REDIRECT_STATI == {301, 302, 303, 307, 308}

Operations ==
    {"list_agents", "get_agent", "send_heartbeat", "create_proposal",
     "list_proposals", "get_proposal", "get_mission", "list_missions"}

MethodOf(o) == IF o \in {"send_heartbeat", "create_proposal"} THEN "POST" ELSE "GET"

\* Variant: every error status is retried.
is_retry_any_error(m, r, left) ==
    /\ m \in allowed_methods
    /\ r.status_code >= 400

\* Retry.is_retry(method, status_code, has_retry_after)
is_retry(m, r, left) ==
    /\ m \in allowed_methods
    /\ \/ r.status_code \in status_forcelist
       \/ /\ left # 0
          /\ r.retry_after
          /\ r.status_code \in RETRY_AFTER_STATUS_CODES

\* Response.is_redirect
is_redirect(r) == r.location /\ r.status_code \in REDIRECT_STATI

\* SessionRedirectMixin.rebuild_method
rebuild_method(m, r) ==
    IF r.status_code \in {302, 303} /\ m # "HEAD" THEN "GET"
    ELSE IF r.status_code = 301 /\ m = "POST" THEN "GET"
    ELSE m

-----------------------------------------------------------------------------
(* Responses the server may give.                                          *)

Statuses == {200, 204, 299, 300, 302, 304, 403, 413, 429, 500, 502, 503, 504}

LongText ==
    "yyyyyyyyyyyyyyyyyyyyyyyyyyyyyyyyyyyyyyyyyyyyyyyyyyyyyyyyyyyyyyyyyyyyyyyyyyyyyyyyyyyyyyyyyyyyyyyyyyyy" \o
    "yyyyyyyyyyyyyyyyyyyyyyyyyyyyyyyyyyyyyyyyyyyyyyyyyyyyyyyyyyyyyyyyyyyyyyyyyyyyyyyyyyyyyyyyyyyyyyyyyyyy" \o
    "y"

Texts ==
    {"", "null", "true", "oops", LongText,
     "{\"error\":\"Forbidden\"}",
     "{\"id\":\"scout\"}",
     "[{\"id\":\"scout\"}]",
     "{\"agents\":[{\"id\":\"a\"},{\"id\":\"b\"}],\"data\":[{\"id\":\"c\"}]}",
     "{\"proposals\":[{\"id\":\"a\"},{\"id\":\"b\"}],\"data\":[{\"id\":\"c\"}]}",
     "{\"missions\":[{\"id\":\"a\"},{\"id\":\"b\"}],\"data\":[{\"id\":\"c\"}]}",
     "{\"agents\":null,\"data\":[{\"id\":\"c\"}]}",
     "{\"data\":[{\"id\":\"b\"},{\"id\":\"a\"}]}",
     "{\"agent\":{\"id\":\"a\"},\"id\":\"z\"}",
     "{\"proposal\":{\"id\":\"a\"},\"id\":\"z\"}",
     "{\"mission\":{\"id\":\"a\"},\"id\":\"z\"}"}

\* Response.json(): the texts that are JSON documents, and their values.
IsJson(text) == text \in Texts \ {"", "oops", LongText}

\* {"id": x}
Obj(x) == Dict([k \in {"id"} |-> Str(x)])

\* {key: [{"id":"a"},{"id":"b"}], "data": [{"id":"c"}]}
Listing(key) ==
    Dict([k \in {key, "data"} |->
            IF k = key THEN List(<<Obj("a"), Obj("b")>>) ELSE List(<<Obj("c")>>)])

\* {key: {"id":"a"}, "id": "z"}
Wrapped(key) ==
    Dict([k \in {key, "id"} |-> IF k = key THEN Obj("a") ELSE Str("z")])

json_loads(text) ==
    CASE text = "null" -> None
      [] text = "true" -> Bool(TRUE)
      [] text = "{\"error\":\"Forbidden\"}" -> Dict([k \in {"error"} |-> Str("Forbidden")])
      [] text = "{\"id\":\"scout\"}" -> Obj("scout")
      [] text = "[{\"id\":\"scout\"}]" -> List(<<Obj("scout")>>)
      [] text = "{\"agents\":[{\"id\":\"a\"},{\"id\":\"b\"}],\"data\":[{\"id\":\"c\"}]}" -> Listing("agents")
      [] text = "{\"proposals\":[{\"id\":\"a\"},{\"id\":\"b\"}],\"data\":[{\"id\":\"c\"}]}" -> Listing("proposals")
      [] text = "{\"missions\":[{\"id\":\"a\"},{\"id\":\"b\"}],\"data\":[{\"id\":\"c\"}]}" -> Listing("missions")
      [] text = "{\"agents\":null,\"data\":[{\"id\":\"c\"}]}" ->
            Dict([k \in {"agents", "data"} |-> IF k = "agents" THEN None ELSE List(<<Obj("c")>>)])
      [] text = "{\"data\":[{\"id\":\"b\"},{\"id\":\"a\"}]}" ->
            Dict([k \in {"data"} |-> List(<<Obj("b"), Obj("a")>>)])
      [] text = "{\"agent\":{\"id\":\"a\"},\"id\":\"z\"}" -> Wrapped("agent")
      [] text = "{\"proposal\":{\"id\":\"a\"},\"id\":\"z\"}" -> Wrapped("proposal")
      [] text = "{\"mission\":{\"id\":\"a\"},\"id\":\"z\"}" -> Wrapped("mission")

\* The bodies the server sends with a status: any of the texts with a
\* success status, an error document or plain text with an error status.
TextsFor(status_code) ==
    IF status_code \in 200..299 THEN Texts
    ELSE IF status_code \in 300..399 THEN {"", "null", "{\"id\":\"scout\"}"}
    ELSE {"", "oops", LongText, "{\"error\":\"Forbidden\"}"}

\* A 204 or 304 response never has a body (http.client reads none).  The
\* server sends Location with 3xx statuses only and Retry-After with these
\* 4xx/5xx statuses only.
Responses ==
    {r \in [status_code : Statuses, text : Texts, retry_after : BOOLEAN, location : BOOLEAN] :
        /\ r.text \in TextsFor(r.status_code)
        /\ r.status_code \in {204, 304} => r.text = ""
        /\ r.location => r.status_code \in 300..399
        /\ r.retry_after => r.status_code \in {403, 413, 429, 503}}

-----------------------------------------------------------------------------
(* client.py: errors, _request and the public operations.                  *)

MessageLimit == 200

\* response_body[:200]
Slice(text, n) == IF Len(text) <= n THEN text ELSE SubSeq(text, 1, n)

XSkynetAPIError(status_code, response_body) ==
    [kind |-> "XSkynetAPIError",
     status_code |-> status_code,
     response_body |-> response_body,
     message |-> [status_code |-> status_code, text |-> Slice(response_body, MessageLimit)]]

Raised(type) == [kind |-> type]
Returned(value) == [kind |-> "return", value |-> value]

\* Response.ok: raise_for_status() raises for 400 <= status < 600 only.
ok(r) == ~(r.status_code >= 400 /\ r.status_code < 600)

\* Variant: a body that does not parse is treated as no content.
_request_swallow(r) ==
    IF ~ok(r) THEN XSkynetAPIError(r.status_code, r.text)
    ELSE IF r.status_code = 204 \/ r.text = "" THEN Returned(None)
    ELSE IF IsJson(r.text) THEN Returned(json_loads(r.text))
    ELSE Returned(None)

\* Variant: only status 204 counts as no content.
_request_status_only(r) ==
    IF ~ok(r) THEN XSkynetAPIError(r.status_code, r.text)
    ELSE IF r.status_code = 204 THEN Returned(None)
    ELSE IF IsJson(r.text) THEN Returned(json_loads(r.text))
    ELSE Raised("JSONDecodeError")

_request(r) ==
    IF ~ok(r) THEN XSkynetAPIError(r.status_code, r.text)
    ELSE IF r.status_code = 204 \/ r.text = "" THEN Returned(None)
    ELSE IF IsJson(r.text) THEN Returned(json_loads(r.text))
    ELSE Raised("JSONDecodeError")

\* An error raised by a conversion, as the operation's outcome.
Converted(x) ==
    IF IsRaise(x) THEN Raised(x.exc) ELSE Returned(x)

AgentList(raw) ==
    IF raw.t \in {"bool", "null"} THEN Raise("TypeError")
    ELSE FirstRaise([i \in 1..Len(Iterated(raw)) |-> Agent_from_dict(Iterated(raw)[i])])

MissionList(raw) ==
    IF raw.t \in {"bool", "null"} THEN Raise("TypeError")
    ELSE FirstRaise([i \in 1..Len(Iterated(raw)) |-> Mission_from_dict(Iterated(raw)[i])])

\* Variant: the generic key is probed before the entity-named key.
ListProbe_data_first(d, key) ==
    IF d.t = "dict" THEN get(d.d, "data", get(d.d, key, List(<<>>)))
    ELSE IF d.t = "list" THEN d
    ELSE List(<<>>)

\* The list probe of list_agents / list_proposals / list_missions.
ListProbe(d, key) ==
    IF d.t = "dict" THEN get(d.d, key, get(d.d, "data", List(<<>>)))
    ELSE IF d.t = "list" THEN d
    ELSE List(<<>>)

\* Variant: the record is always built from the whole body.
Unwrap_whole_body(d, key) == d

\* The unwrapping of get_agent / get_proposal / get_mission / create_proposal.
Unwrap(d, key) ==
    IF d.t = "dict" /\ key \in DOMAIN d.d THEN d.d[key] ELSE d

list_agents(res) ==
    IF res.kind # "return" THEN res
    ELSE Converted(AgentList(ListProbe(res.value, "agents")))

get_agent(res) ==
    IF res.kind # "return" THEN res
    ELSE Converted(Agent_from_dict(Unwrap(res.value, "agent")))

send_heartbeat(res) == res

create_proposal(res) ==
    IF res.kind # "return" THEN res
    ELSE Converted(Proposal_from_dict(Unwrap(res.value, "proposal")))

list_proposals(res) ==
    IF res.kind # "return" THEN res
    ELSE Converted(ProposalList(ListProbe(res.value, "proposals")))

get_proposal(res) ==
    IF res.kind # "return" THEN res
    ELSE Converted(Proposal_from_dict(Unwrap(res.value, "proposal")))

get_mission(res) ==
    IF res.kind # "return" THEN res
    ELSE Converted(Mission_from_dict(Unwrap(res.value, "mission")))

list_missions(res) ==
    IF res.kind # "return" THEN res
    ELSE Converted(MissionList(ListProbe(res.value, "missions")))

\* isinstance(step, ProposalStep): a step object, not a mapping.
IsProposalStep(step) == "title" \in DOMAIN step

\* One turn of create_proposal's loop: step.to_dict() or dict(step).
serialise(step) ==
    IF IsProposalStep(step) THEN ProposalStep_to_dict(step)
    ELSE step.d

\* for step in steps or []: serialised_steps.append(...)
serialised_steps(steps) ==
    LET q == IF steps = None THEN <<>> ELSE steps.items
    IN [i \in 1..Len(q) |-> serialise(q[i])]

\* The json argument operation o passes to _request.
Payload(o, a) ==
    CASE o = "create_proposal" ->
            [title |-> Str("T"),
             description |-> Str("D"),
             proposed_by |-> Str("sdk"),
             priority |-> Str("medium"),
             steps |-> serialised_steps(a.steps)]
      [] o = "send_heartbeat" -> [status |-> Str("healthy")]
      [] OTHER -> None

\* The steps argument of create_proposal: absent, empty, a step object
\* followed by a mapping with the three wire keys, or a mapping with other
\* keys.
StepObject ==
    [title |-> Str("Gather"), assigned_to |-> Str("scout"), prompt |-> Str("Search"),
     status |-> Str("done"), result |-> Str("found")]

RawNarrow == Dict([k \in {"title", "assigned_to", "prompt"} |-> Str("a")])

RawWide == Dict([k \in {"title", "assignedTo", "status"} |-> Str("b")])

StepArgs ==
    {None, [items |-> <<>>], [items |-> <<StepObject, RawNarrow>>], [items |-> <<RawWide>>]}

ArgsOf(o) ==
    IF o = "create_proposal" THEN [steps : StepArgs] ELSE {NoArgs}

\* What operation o hands to its caller when the final response is r.
Finish(o, r) ==
    CASE o = "list_agents" -> list_agents(_request(r))
      [] o = "get_agent" -> get_agent(_request(r))
      [] o = "send_heartbeat" -> send_heartbeat(_request(r))
      [] o = "create_proposal" -> create_proposal(_request(r))
      [] o = "list_proposals" -> list_proposals(_request(r))
      [] o = "get_proposal" -> get_proposal(_request(r))
      [] o = "get_mission" -> get_mission(_request(r))
      [] o = "list_missions" -> list_missions(_request(r))

-----------------------------------------------------------------------------
(* Spec: a client and the server it talks to.                              *)

Init ==
    /\ \E m \in 0..MaxRetriesBound : Constructed(m)
    /\ ClientIdle
    /\ cls = "none"
    /\ data = None
    /\ rec = Unset
    /\ wire = Unset

\* A public operation is called: Session.request starts with a fresh copy
\* of the adapter's Retry object.
Call(o) ==
    /\ pc = "idle"
    /\ op' = o
    /\ method' = MethodOf(o)
    /\ total' = max_retries
    /\ nreq' = 0
    /\ hops' = 0
    /\ resp' = NoResponse
    /\ outcome' = NoOutcome
    /\ pc' = "send"
    /\ \E a \in ArgsOf(o) :
          /\ args' = a
          /\ payload' = Payload(o, a)
    /\ UNCHANGED <<max_retries, cls, data, rec, wire>>
    /\ UNCHANGED lifeVars
    /\ UNCHANGED used

\* The request goes on the wire; the response to the attempt before it, if
\* any, has been drained and released.
Send ==
    /\ pc = "send"
    /\ nreq' = nreq + 1
    /\ resp' = NoResponse
    /\ pc' = "wait"
    /\ UNCHANGED <<max_retries, op, method, total, hops, outcome, cls, data, rec, wire>>
    /\ UNCHANGED <<args, payload, used>>
    /\ UNCHANGED lifeVars

\* The server answers r.  urlopen asks the Retry object whether to retry;
\* Retry.increment raises MaxRetryError once total drops below zero, which
\* HTTPAdapter.send turns into RetryError.  A redirect is followed by the
\* session with a new send.  Anything else is the final response, which
\* _request and the operation turn into the outcome.
Receive(r) ==
    /\ pc = "wait"
    /\ is_redirect(r) => hops < MaxHops
    /\ resp' = r
    /\ IF is_retry(method, r, total)
       THEN IF total - 1 < 0
            THEN /\ outcome' = Raised("RetryError")
                 /\ pc' = "done"
                 /\ UNCHANGED <<total, hops, method>>
            ELSE /\ total' = total - 1
                 /\ pc' = "send"
                 /\ UNCHANGED <<outcome, hops, method>>
       ELSE IF is_redirect(r)
            THEN /\ hops' = hops + 1
                 /\ total' = max_retries
                 /\ method' = rebuild_method(method, r)
                 /\ pc' = "send"
                 /\ UNCHANGED outcome
            ELSE /\ outcome' = Finish(op, r)
                 /\ pc' = "done"
                 /\ UNCHANGED <<total, hops, method>>
    /\ UNCHANGED <<max_retries, op, nreq, cls, data, rec, wire>>
    /\ UNCHANGED <<args, payload, used>>
    /\ UNCHANGED lifeVars

\* The attempt fails below HTTP (connection refused, reset, timeout): it is
\* retried while Retry.total lasts, then surfaces as requests' ConnectionError.
ConnectionFails ==
    /\ pc = "wait"
    /\ resp' = NoResponse
    /\ IF total - 1 < 0
       THEN /\ outcome' = Raised("ConnectionError")
            /\ pc' = "done"
            /\ UNCHANGED total
       ELSE /\ total' = total - 1
            /\ pc' = "send"
            /\ UNCHANGED outcome
    /\ UNCHANGED <<max_retries, op, method, nreq, hops, cls, data, rec, wire>>
    /\ UNCHANGED <<args, payload, used>>
    /\ UNCHANGED lifeVars

\* Variant: the retries a call used up are taken off the client's policy.
Return_consumes_retries ==
    /\ pc = "done"
    /\ pc' = "idle"
    /\ op' = "none"
    /\ method' = "none"
    /\ total' = 0
    /\ nreq' = 0
    /\ hops' = 0
    /\ resp' = NoResponse
    /\ outcome' = NoOutcome
    /\ args' = NoArgs
    /\ payload' = None
    /\ max_retries' = total
    /\ UNCHANGED <<cls, data, rec, wire>>
    /\ UNCHANGED lifeVars
    /\ used' = TRUE

\* The caller has the outcome; the client is ready for the next call.
Return ==
    /\ pc = "done"
    /\ pc' = "idle"
    /\ op' = "none"
    /\ method' = "none"
    /\ total' = 0
    /\ nreq' = 0
    /\ hops' = 0
    /\ resp' = NoResponse
    /\ outcome' = NoOutcome
    /\ args' = NoArgs
    /\ payload' = None
    /\ UNCHANGED <<max_retries, cls, data, rec, wire>>
    /\ UNCHANGED lifeVars
    /\ used' = TRUE

Next ==
    \/ \E o \in Operations : Call(o)
    \/ Send
    \/ \E r \in Responses : Receive(r)
    \/ ConnectionFails
    \/ Return

Spec == Init /\ [][Next]_vars

-----------------------------------------------------------------------------
(* SpecConstruct: the constructor applied to drawn arguments.              *)

InitConstruct ==
    /\ ctor \in CtorArgs
    /\ client = Unset
    /\ max_retries = 0
    /\ session = "none"
    /\ scope = "none"
    /\ escaped = NoOutcome
    /\ used = FALSE
    /\ pc = "new"
    /\ args = NoArgs
    /\ payload = None
    /\ op = "none"
    /\ method = "none"
    /\ total = 0
    /\ nreq = 0
    /\ hops = 0
    /\ resp = NoResponse
    /\ outcome = NoOutcome
    /\ cls = "none"
    /\ data = None
    /\ rec = Unset
    /\ wire = Unset

\* XSkynetClient(base_url, api_key, timeout, max_retries)
Construct ==
    /\ pc = "new"
    /\ client' = __init__(ctor)
    /\ max_retries' = ctor.max_retries
    /\ session' = "open"
    /\ pc' = "idle"
    /\ UNCHANGED <<ctor, scope, escaped, used, op, method, total, nreq, hops, resp, outcome, args, payload>>
    /\ UNCHANGED modelVars

NextConstruct == Construct

SpecConstruct == InitConstruct /\ [][NextConstruct]_vars

-----------------------------------------------------------------------------
(* SpecScope: the client as a context manager.  The caller either closes   *)
(* the client explicitly, or enters a with-block, calls operations inside  *)
(* it and leaves it: normally between two operations, or with the          *)
(* exception of an operation it does not catch.                            *)

\* with client: ... calls __enter__.
Enter ==
    /\ pc = "idle" /\ scope = "none" /\ session = "open"
    /\ client' = __enter__(client)
    /\ scope' = "inside"
    /\ UNCHANGED <<ctor, session, escaped, used>>
    /\ UNCHANGED <<max_retries, op, method, total, nreq, hops, resp, outcome, args, payload, pc>>
    /\ UNCHANGED modelVars

\* The block ends with no exception pending: __exit__(None, None, None).
ExitNormal ==
    /\ scope = "inside" /\ pc = "idle"
    /\ session' = __exit__(session, NoOutcome).session
    /\ scope' = "left"
    /\ escaped' = NoOutcome
    /\ UNCHANGED <<ctor, client, used>>
    /\ UNCHANGED <<max_retries, op, method, total, nreq, hops, resp, outcome, args, payload, pc>>
    /\ UNCHANGED modelVars

\* An operation raised and the block does not catch it: __exit__ is called
\* with the exception, which the with statement re-raises unless __exit__
\* returned a true value.
ExitRaise ==
    /\ scope = "inside" /\ pc = "done" /\ outcome.kind # "return"
    /\ session' = __exit__(session, outcome).session
    /\ scope' = "left"
    /\ escaped' = IF __exit__(session, outcome).suppress THEN NoOutcome ELSE outcome
    /\ pc' = "idle"
    /\ op' = "none"
    /\ method' = "none"
    /\ total' = 0
    /\ nreq' = 0
    /\ hops' = 0
    /\ resp' = NoResponse
    /\ outcome' = NoOutcome
    /\ args' = NoArgs
    /\ payload' = None
    /\ used' = TRUE
    /\ UNCHANGED <<ctor, client, max_retries>>
    /\ UNCHANGED modelVars

\* client.close() outside any with-block.
Close ==
    /\ scope = "none" /\ pc = "idle" /\ session = "open"
    /\ session' = close(session)
    /\ UNCHANGED <<ctor, client, scope, escaped, used>>
    /\ UNCHANGED <<max_retries, op, method, total, nreq, hops, resp, outcome, args, payload, pc>>
    /\ UNCHANGED modelVars

NextScope ==
    \/ Enter
    \/ scope = "inside" /\ \E o \in Operations : Call(o)
    \/ Send
    \/ \E r \in Responses : Receive(r)
    \/ ConnectionFails
    \/ scope = "inside" /\ Return
    \/ ExitNormal
    \/ ExitRaise
    \/ Close

SpecScope == Init /\ [][NextScope]_vars

-----------------------------------------------------------------------------
(* Properties of the client (specification Spec).                          *)

Is2xx(r) == r.status_code >= 200 /\ r.status_code < 300

\* C1 (as claimed): whenever an operation ends on a response whose status
\* is outside [200,300), its outcome is XSkynetAPIError carrying that status
\* and the complete response text, never a returned value.
C1_NonSuccessRaisesAPIError ==
    (pc = "done" /\ resp # NoResponse /\ ~Is2xx(resp)) =>
        /\ outcome.kind = "XSkynetAPIError"
        /\ outcome.status_code = resp.status_code
        /\ outcome.response_body = resp.text

\* C2 (as claimed, for operations that follow no redirect): a request is
\* re-issued after a response only when the response's status is in the
\* retry list, and the operation never sends more than max_retries + 1
\* requests.
C2_Original ==
    [][(pc = "wait" /\ pc' = "send" /\ hops' = 0 /\ resp' # NoResponse) =>
          /\ resp'.status_code \in {429, 500, 502, 503, 504}
          /\ nreq + 1 <= max_retries + 1]_vars

\* What makes the transport send another request after an attempt.
ReissueCause(r, left) ==
    \/ r = NoResponse
    \/ r.status_code \in {429, 500, 502, 503, 504}
    \/ r.status_code = 413 /\ r.retry_after /\ left > 0
    \/ r.status_code \in {301, 302, 303, 307, 308} /\ r.location

\* C2 (amended): a request is re-issued only after a response with status
\* 429/500/502/503/504, after a 413 carrying Retry-After while retries are
\* left, after an attempt that failed below HTTP, or to follow a redirect;
\* every re-issue but a redirect consumes one of the max_retries retries,
\* so an operation that followed h redirects has sent at most
\* (h + 1) * (max_retries + 1) requests; any other response ends the
\* operation with no further request.
C2_RetryPolicy ==
    /\ [](nreq <= (hops + 1) * (max_retries + 1))
    /\ [][(pc = "wait" /\ pc' = "send") =>
            /\ ReissueCause(resp', total)
            /\ hops' = hops => (total >= 1 /\ total' = total - 1)]_vars
    /\ [][(pc = "wait" /\ pc' # "wait" /\ ~ReissueCause(resp', total)) =>
            (pc' = "done" /\ nreq' = nreq)]_vars

C2_Witness ==
    /\ pc = "done"
    /\ max_retries >= 1
    /\ hops = 0
    /\ nreq = max_retries + 1
    /\ resp.status_code \in status_forcelist

\* C3 (as claimed): when the retries are used up on a response with a
\* retryable status, the operation fails with XSkynetAPIError carrying the
\* status and text of that last response.
C3_ExhaustedRaisesAPIError ==
    (pc = "done" /\ hops = 0 /\ nreq = max_retries + 1
        /\ resp.status_code \in {429, 500, 502, 503, 504}) =>
        /\ outcome.kind = "XSkynetAPIError"
        /\ outcome.status_code = resp.status_code
        /\ outcome.response_body = resp.text

MalformedSuccess ==
    pc = "done" /\ Is2xx(resp) /\ resp.text # "" /\ ~IsJson(resp.text)

\* C4 (as claimed): a 2xx response whose non-empty body is not JSON makes
\* the operation fail with XSkynetAPIError.
C4_Original == MalformedSuccess => outcome.kind = "XSkynetAPIError"

\* C4 (amended): a 2xx response whose non-empty body is not JSON makes every
\* operation fail with the JSONDecodeError that Response.json() raises,
\* unwrapped; no value is returned and no XSkynetAPIError is raised.
C4_MalformedJsonPropagates == MalformedSuccess => outcome = Raised("JSONDecodeError")

C4_Witness ==
    MalformedSuccess /\ resp.text = "oops" /\ outcome.kind = "JSONDecodeError"

NoContent(r) == r.status_code = 204 \/ r.text = ""

\* C5 (as claimed): on a 2xx response send_heartbeat returns None exactly
\* when the status is 204 or the body is empty, and the parsed body
\* otherwise.
C5_Original ==
    (pc = "done" /\ op = "send_heartbeat" /\ Is2xx(resp) /\ outcome.kind = "return") =>
        /\ (outcome.value = None) <=> NoContent(resp)
        /\ (~NoContent(resp) /\ IsJson(resp.text)) => outcome.value = json_loads(resp.text)

\* C5 (amended): on a 2xx response the helper returns None when the status
\* is 204 or the body is empty, and otherwise the parsed JSON body unchanged
\* (itself None when the body is the JSON literal null); send_heartbeat
\* hands that value to its caller verbatim.
C5_RequestResult ==
    (pc = "done" /\ op = "send_heartbeat" /\ Is2xx(resp)
        /\ (NoContent(resp) \/ IsJson(resp.text))) =>
        outcome = Returned(IF NoContent(resp) THEN None ELSE json_loads(resp.text))

C5_Witness ==
    /\ pc = "done" /\ op = "send_heartbeat"
    /\ resp.status_code = 200 /\ resp.text = "{\"id\":\"scout\"}"
    /\ outcome.kind = "return" /\ outcome.value.t = "dict"

-----------------------------------------------------------------------------
(* Properties of the conversions (specification SpecModels).               *)

\* The fields with a second, camelCase spelling of their key.
DualFields(c) ==
    CASE c = "Agent" -> {[snake |-> "last_heartbeat", camel |-> "lastHeartbeat"]}
      [] c = "ProposalStep" -> {[snake |-> "assigned_to", camel |-> "assignedTo"]}
      [] c = "Proposal" ->
            {[snake |-> "proposed_by", camel |-> "proposedBy"],
             [snake |-> "created_at", camel |-> "createdAt"],
             [snake |-> "updated_at", camel |-> "updatedAt"]}
      [] c = "Mission" -> {[snake |-> "created_at", camel |-> "createdAt"]}
      [] OTHER -> {}

FromDict(c, v) ==
    CASE c = "Agent" -> Agent_from_dict(v)
      [] c = "ProposalStep" -> ProposalStep_from_dict(v)
      [] c = "Proposal" -> Proposal_from_dict(v)
      [] c = "Mission" -> Mission_from_dict(v)

\* C6 (as claimed): when the input has both spellings of a key with
\* different values, the field is the snake_case key's value.
C6_SnakeCaseWins ==
    \A p \in DualFields(cls) :
        (IsRecord(rec) /\ p.snake \in DOMAIN data.d /\ p.camel \in DOMAIN data.d
            /\ data.d[p.snake] # data.d[p.camel]) =>
            rec[p.snake] = data.d[p.snake]

\* The mapping d with the value of key s carried under key c instead.
Respell(d, s, c) ==
    [k \in ((DOMAIN d) \ {s}) \cup {c} |-> IF k = c THEN d[s] ELSE d[k]]

\* C7 (as claimed): an input carrying a value only under the snake_case key
\* deserializes to the same record as the input carrying it only under the
\* camelCase key.
C7_SpellingsEquivalent ==
    \A p \in DualFields(cls) :
        (rec # Unset /\ p.snake \in DOMAIN data.d /\ p.camel \notin DOMAIN data.d) =>
            rec = FromDict(cls, Dict(Respell(data.d, p.snake, p.camel)))

\* The named fields of each class, in both spellings.
NamedKeys(c) ==
    CASE c = "Agent" ->
            {"id", "name", "status", "role", "model", "last_heartbeat", "lastHeartbeat"}
      [] c = "Proposal" ->
            {"id", "title", "description", "proposed_by", "proposedBy", "priority",
             "status", "steps", "created_at", "createdAt", "updated_at", "updatedAt"}
      [] c = "Mission" ->
            {"id", "title", "description", "status", "proposals", "created_at", "createdAt"}
      [] OTHER -> {}

\* C8: the metadata of an Agent, Proposal or Mission holds exactly the input
\* keys that are not named fields (in either spelling), each with the
\* input's value.
C8_MetadataExact ==
    (cls \in {"Agent", "Proposal", "Mission"} /\ IsRecord(rec)) =>
        /\ DOMAIN rec.metadata = (DOMAIN data.d) \ NamedKeys(cls)
        /\ \A k \in DOMAIN rec.metadata : rec.metadata[k] = data.d[k]

C8_Witness ==
    /\ cls = "Agent" /\ IsRecord(rec)
    /\ {"id", "lastHeartbeat", "extra"} \subseteq DOMAIN data.d
    /\ DOMAIN rec.metadata = {"extra"}

\* C9: ProposalStep.from_dict succeeds on every mapping, and to_dict of its
\* result has exactly the keys title, assigned_to and prompt.
C9_ToDictNarrow ==
    /\ (cls = "ProposalStep" /\ rec # Unset) => IsRecord(rec)
    /\ (cls = "ProposalStep" /\ wire # Unset) =>
            DOMAIN wire = {"title", "assigned_to", "prompt"}

C9_Witness ==
    /\ cls = "ProposalStep" /\ wire # Unset
    /\ {"status", "result", "extra"} \subseteq DOMAIN data.d

NestedAbsent(d, key) ==
    key \notin DOMAIN d \/ d[key] = None \/ d[key] = List(<<>>)

ElementFromDict(c, v) ==
    IF c = "Proposal" THEN ProposalStep_from_dict(v) ELSE Proposal_from_dict(v)

\* C10: the steps of a Proposal and the proposals of a Mission are always a
\* sequence: empty when the input key is missing, null or an empty array
\* (and a record is produced then), and otherwise one deserialized element
\* per element of the input array, in order.
C10_NestedSequences ==
    (cls \in {"Proposal", "Mission"} /\ rec # Unset) =>
        LET key == NestedKey(cls) IN
        /\ NestedAbsent(data.d, key) => IsRecord(rec)
        /\ IsRecord(rec) =>
            /\ DOMAIN rec[key] = 1..Len(rec[key])
            /\ NestedAbsent(data.d, key) => Len(rec[key]) = 0
            /\ (key \in DOMAIN data.d /\ data.d[key].t = "list") =>
                /\ Len(rec[key]) = Len(data.d[key].l)
                /\ \A i \in 1..Len(rec[key]) :
                      rec[key][i] = ElementFromDict(cls, data.d[key].l[i])
            /\ (key \in DOMAIN data.d /\ data.d[key].t # "list") => Len(rec[key]) = 0

C10_Witness ==
    /\ cls = "Mission" /\ IsRecord(rec)
    /\ Len(rec.proposals) = 2
    /\ rec.proposals[1].id # rec.proposals[2].id
    /\ Len(rec.proposals[2].steps) = 1

-----------------------------------------------------------------------------
(* Properties of the public operations (specification Spec).               *)

ListOps == {"list_agents", "list_proposals", "list_missions"}

EntityKey(o) ==
    CASE o = "list_agents" -> "agents"
      [] o = "list_proposals" -> "proposals"
      [] o = "list_missions" -> "missions"

EntityOf(o) ==
    CASE o \in {"list_agents", "get_agent"} -> "Agent"
      [] o \in {"list_proposals", "get_proposal", "create_proposal"} -> "Proposal"
      [] o \in {"list_missions", "get_mission"} -> "Mission"

\* The operation ended on a 2xx response whose body _request handed over.
BodyDelivered ==
    pc = "done" /\ Is2xx(resp) /\ (NoContent(resp) \/ IsJson(resp.text))

Body(r) == IF NoContent(r) THEN None ELSE json_loads(r.text)

\* The body offers an element list: under the entity-named key, under
\* "data", or as a bare array.
Offers(o, v) ==
    \/ v.t = "list"
    \/ v.t = "dict" /\ (EntityKey(o) \in DOMAIN v.d \/ "data" \in DOMAIN v.d)

Chosen(o, v) ==
    IF v.t = "list" THEN v
    ELSE IF EntityKey(o) \in DOMAIN v.d THEN v.d[EntityKey(o)]
    ELSE v.d["data"]

\* C11: a list operation takes its elements from the entity-named key when
\* the body has it, else from "data" when the body has it, else from the
\* body itself when it is an array; when the chosen value is an array whose
\* elements all convert, the operation returns one record per element, in
\* order, and when an element does not convert it returns nothing.
C11_ListProbeOrder ==
    (BodyDelivered /\ op \in ListOps /\ Offers(op, Body(resp))
        /\ Chosen(op, Body(resp)).t = "list") =>
        LET l == Chosen(op, Body(resp)).l
            c == EntityOf(op)
        IN IF \A i \in 1..Len(l) : ~IsRaise(FromDict(c, l[i]))
           THEN /\ outcome.kind = "return"
                /\ Len(outcome.value.items) = Len(l)
                /\ \A i \in 1..Len(l) : outcome.value.items[i] = FromDict(c, l[i])
           ELSE outcome.kind # "return"

C11_Witness ==
    /\ pc = "done" /\ op = "list_agents" /\ resp.status_code = 200
    /\ resp.text = "{\"agents\":[{\"id\":\"a\"},{\"id\":\"b\"}],\"data\":[{\"id\":\"c\"}]}"
    /\ outcome.kind = "return"
    /\ Len(outcome.value.items) = 2
    /\ outcome.value.items[1].id = Str("a")
    /\ outcome.value.items[2].id = Str("b")

WireKeys == {"title", "assigned_to", "prompt"}

GivenSteps == IF args.steps = None THEN <<>> ELSE args.steps.items

TitleOf(step) == IF "title" \in DOMAIN step THEN step.title ELSE get(step.d, "title", None)

\* C12 (as claimed): the payload of create_proposal always has a steps
\* array, empty when the steps argument is absent, holding one mapping per
\* input step in the caller's order, each with exactly the keys title,
\* assigned_to and prompt, whether the input step was a ProposalStep or a
\* raw mapping.
C12_StepsNarrowed ==
    (op = "create_proposal" /\ pc # "idle") =>
        /\ "steps" \in DOMAIN payload
        /\ Len(payload.steps) = Len(GivenSteps)
        /\ \A i \in 1..Len(GivenSteps) :
              /\ DOMAIN payload.steps[i] = WireKeys
              /\ payload.steps[i]["title"] = TitleOf(GivenSteps[i])

SingleOps == {"get_agent", "get_proposal", "get_mission", "create_proposal"}

WrapperKey(o) ==
    CASE o = "get_agent" -> "agent"
      [] o \in {"get_proposal", "create_proposal"} -> "proposal"
      [] o = "get_mission" -> "mission"

\* C15: a single-entity operation builds its record from the value under
\* the wrapper key when the body is a mapping that has the key, and from
\* the whole body otherwise; what the conversion returns or raises is the
\* operation's outcome, and a body that is not a mapping (null, an array,
\* a scalar) makes the operation raise instead of returning a record.
C15_UnwrapOrWhole ==
    (BodyDelivered /\ op \in SingleOps) =>
        LET v == Body(resp)
            k == WrapperKey(op)
            source == IF v.t = "dict" /\ k \in DOMAIN v.d THEN v.d[k] ELSE v
            built == FromDict(EntityOf(op), source)
        IN /\ outcome = IF IsRaise(built) THEN Raised(built.exc) ELSE Returned(built)
           /\ v.t # "dict" => outcome.kind \in {"TypeError", "AttributeError"}

C15_Witness ==
    /\ pc = "done" /\ op = "get_agent" /\ resp.status_code = 200
    /\ resp.text = "{\"agent\":{\"id\":\"a\"},\"id\":\"z\"}"
    /\ outcome.kind = "return"
    /\ outcome.value.id = Str("a")

\* What an operation hands over, from the operation and the last answer
\* to its request alone.
Expected(o, r) ==
    IF r = NoResponse THEN Raised("ConnectionError")
    ELSE IF r.status_code \in {429, 500, 502, 503, 504} THEN Raised("RetryError")
    ELSE Finish(o, r)

\* C16: whatever operations ran before, the client's base_url, api_key,
\* timeout, session headers and retry policy are what the constructor set
\* from its arguments; between two operations nothing of the earlier call
\* or its response is kept; every call starts with the full retry budget;
\* and what an operation hands over is determined by the operation and the
\* last answer to its request, on a fresh client and on a used one alike.
C16_Stateless ==
    /\ [](client = __init__(ctor) /\ max_retries = ctor.max_retries /\ session = "open")
    /\ [](pc = "idle" =>
            /\ op = "none" /\ method = "none"
            /\ total = 0 /\ nreq = 0 /\ hops = 0
            /\ resp = NoResponse /\ outcome = NoOutcome
            /\ args = NoArgs /\ payload = None)
    /\ [](pc = "done" => outcome = Expected(op, resp))
    /\ [][(pc = "idle" /\ pc' = "send") => total' = ctor.max_retries]_vars

C16_Witness ==
    /\ used /\ pc = "done"
    /\ max_retries = 2 /\ total = 0 /\ nreq = 3
    /\ op = "get_agent"
    /\ resp.status_code = 200 /\ resp.text = "{\"id\":\"scout\"}"
    /\ outcome.kind = "return"
    /\ client.base_url = "https://example.com"

-----------------------------------------------------------------------------
(* Properties of construction (specification SpecConstruct).               *)

EndsWithSlash(s) == Len(s) > 0 /\ SubSeq(s, Len(s), Len(s)) = "/"

\* C13 (as claimed): the stored base_url is the given URL with one trailing
\* slash removed when it ends in a slash, and the given URL otherwise.
C13_Original ==
    client # Unset =>
        client.base_url =
            IF EndsWithSlash(ctor.base_url)
            THEN SubSeq(ctor.base_url, 1, Len(ctor.base_url) - 1)
            ELSE ctor.base_url

\* C13 (amended): the stored base_url is the given URL with all of its
\* trailing slashes removed: a prefix of the given URL that does not end in
\* a slash and is followed in the given URL by slashes only.
C13_AllTrailingSlashesStripped ==
    client # Unset =>
        LET g == ctor.base_url
            b == client.base_url
        IN /\ Len(b) <= Len(g)
           /\ b = SubSeq(g, 1, Len(b))
           /\ \A i \in (Len(b) + 1)..Len(g) : SubSeq(g, i, i) = "/"
           /\ ~EndsWithSlash(b)

C13_Witness ==
    /\ client # Unset
    /\ ctor.base_url = "https://example.com//"
    /\ client.base_url = "https://example.com"

-----------------------------------------------------------------------------
(* Properties of the context manager (specification SpecScope).            *)

\* C14: once the with-block is left the session is closed, whether the
\* block ended between two operations or with the exception of an
\* operation, and in the second case that exception is the one the caller
\* of the block gets.
C14_ScopeCloses ==
    /\ [](scope = "left" => session = "closed")
    /\ [][(scope = "inside" /\ scope' = "left") =>
            /\ session' = "closed"
            /\ (pc = "done") => (outcome.kind \notin {"none", "return"} /\ escaped' = outcome)
            /\ (pc = "idle") => escaped' = NoOutcome]_vars

C14_Witness ==
    /\ scope = "left"
    /\ session = "closed"
    /\ escaped.kind = "XSkynetAPIError"
    /\ escaped.status_code = 403

====
